---- MODULE Spec2Model ----
(***************************************************************************)
(* Model of src/main.py: the club-name resolver (_get_uefa_coeff) with its *)
(* manual corrections (MANUAL_MAP), its cache (_MATCH_CACHE), its audit    *)
(* log (LOG_RECORDS) and the end-of-run partition of the log into the full *)
(* trail and the not-yet-reviewed subset.                                  *)
(*                                                                         *)
(* Strings of the program are TLA+ strings; Python's None is the string    *)
(* None for names, the empty tuple for a score and Unresolved for a        *)
(* coefficient.  A similarity score is an exact rational <<n, d>> in       *)
(* lowest terms, so that "score >= threshold" is decided exactly.          *)
(***************************************************************************)
EXTENDS Integers, Sequences, FiniteSets, TLC

-----------------------------------------------------------------------------
(* Bounds of the model *)

\* number of rows of transfers.csv that a run processes at most
MaxRows == 2

\* number of rows of fuzzy_corrections.csv at most
MaxCorrRows == 1

-----------------------------------------------------------------------------
(* Values *)

\* None as the value of a name field (matched_name)
None == "None"

\* None as the value of a score field
NoScore == << >>

\* None as a returned / cached coefficient ("unresolved")
Unresolved == -1

\* default of the keyword parameter threshold
DefaultThreshold == 90

\* thresholds a call may pass: the default and the next stricter one
Thresholds == {DefaultThreshold, DefaultThreshold + 1}

Seasons == {"23/24", "24/25"}

\* club names that occur in the ranking source
Clubs == {"rayo", "realmadrid", "realmadrix"}

\* club names as written in the transfers file
Queries == {"realmadrid", "realmadric", "rayo"}

Names == Clubs \cup Queries

\* the characters of a name (all names of the model are single words)
Chars(name) ==
    CASE name = "realmadrid" -> <<"r","e","a","l","m","a","d","r","i","d">>
      [] name = "realmadrix" -> <<"r","e","a","l","m","a","d","r","i","x">>
      [] name = "realmadric" -> <<"r","e","a","l","m","a","d","r","i","c">>
      [] name = "rayo"       -> <<"r","a","y","o">>
      [] OTHER               -> << >>

-----------------------------------------------------------------------------
(* Exact rationals for similarity scores *)

RECURSIVE GCD(_, _)
GCD(a, b) == IF b = 0 THEN a ELSE GCD(b, a % b)

Rat(n, d) == LET g == GCD(n, d) IN <<n \div g, d \div g>>

RatGE(a, b) == a[1] * b[2] >= b[1] * a[2]

RatGT(a, b) == a[1] * b[2] > b[1] * a[2]

RatMax(a, b) == IF RatGE(a, b) THEN a ELSE b

RatMul(a, b) == Rat(a[1] * b[1], a[2] * b[2])

\* an integer threshold as a rational
OfInt(k) == <<k, 1>>

-----------------------------------------------------------------------------
(* rapidfuzz: fuzz.WRatio and process.extractOne, as called at lines       *)
(* 123-127, restricted to single-word names                                *)

Max(a, b) == IF a >= b THEN a ELSE b

\* length of a longest common subsequence of s and t
RECURSIVE LCS(_, _)
LCS(s, t) ==
    IF s = << >> \/ t = << >> THEN 0
    ELSE IF Head(s) = Head(t) THEN 1 + LCS(Tail(s), Tail(t))
    ELSE Max(LCS(Tail(s), t), LCS(s, Tail(t)))

\* fuzz.ratio: normalized Indel similarity, 100 * (1 - dist / (len1 + len2))
Ratio(s, t) ==
    IF Len(s) + Len(t) = 0 THEN OfInt(100)
    ELSE Rat(200 * LCS(s, t), Len(s) + Len(t))

\* the windows of the longer string that partial_ratio aligns the shorter one
\* with: its prefixes and suffixes shorter than the needle, and every
\* substring of the needle's length
Windows(n, t) ==
    {SubSeq(t, 1, i) : i \in 1..(n - 1)}
        \cup {SubSeq(t, i, i + n - 1) : i \in 1..(Len(t) - n + 1)}
        \cup {SubSeq(t, i, Len(t)) : i \in (Len(t) - n + 2)..Len(t)}

\* the largest rational of a non-empty finite set
RatMaxOf(S) == CHOOSE a \in S : \A b \in S : RatGE(a, b)

\* fuzz.partial_ratio: the best ratio of the shorter string against a window
\* of the longer one
PartialRatio(s, t) ==
    LET short == IF Len(s) <= Len(t) THEN s ELSE t
        long  == IF Len(s) <= Len(t) THEN t ELSE s
    IN  RatMaxOf({Ratio(short, w) : w \in Windows(Len(short), long)})

\* fuzz.token_ratio / fuzz.partial_token_ratio on single words: sorting or
\* intersecting the one token leaves the plain comparison
TokenRatio(s, t) == Ratio(s, t)

PartialTokenRatio(s, t) == PartialRatio(s, t)

\* fuzz.WRatio: 0 for an empty string; ratio against the token ratio scaled by
\* 0.95 when the lengths are within a factor 1.5; otherwise also the partial
\* ratios, scaled by 0.9 (length factor up to 8) or 0.6
WRatio(s, t) ==
    LET l1 == Max(Len(s), Len(t))
        l2 == IF Len(s) >= Len(t) THEN Len(t) ELSE Len(s)
        unbase  == <<95, 100>>
        partial == IF l1 <= 8 * l2 THEN <<9, 10>> ELSE <<6, 10>>
        base == Ratio(s, t)
    IN  IF s = << >> \/ t = << >> THEN OfInt(0)
        ELSE IF 2 * l1 < 3 * l2
             THEN RatMax(base, RatMul(TokenRatio(s, t), unbase))
             ELSE LET e == RatMax(base, RatMul(PartialRatio(s, t), partial))
                  IN  RatMax(e, RatMul(RatMul(PartialTokenRatio(s, t), unbase),
                                       partial))

\* the scorer on the names of the model, computed once
ScoreTable == [q \in Names, c \in Names |-> WRatio(Chars(q), Chars(c))]

Score(query, choice) == ScoreTable[query, choice]

\* process.extractOne(query, choices, scorer=WRatio): the first choice, in
\* iteration order, with the highest score, as <<name, score>>; None (an empty
\* tuple) when there is no choice.  The scan stops at a perfect score.
RECURSIVE ExtractFrom(_, _, _, _)
ExtractFrom(query, choices, i, best) ==
    IF i > Len(choices) THEN best
    ELSE LET sc == Score(query, choices[i])
         IN  IF best = << >> \/ RatGT(sc, best[2])
             THEN IF sc = OfInt(100) THEN <<choices[i], sc>>
                  ELSE ExtractFrom(query, choices, i + 1, <<choices[i], sc>>)
             ELSE ExtractFrom(query, choices, i + 1, best)

\* the last of the best choices instead of the first
RECURSIVE ExtractLastFrom(_, _, _, _)
ExtractLastFrom(query, choices, i, best) ==
    IF i > Len(choices) THEN best
    ELSE LET sc == Score(query, choices[i])
         IN  IF best = << >> \/ RatGE(sc, best[2])
             THEN ExtractLastFrom(query, choices, i + 1, <<choices[i], sc>>)
             ELSE ExtractLastFrom(query, choices, i + 1, best)

ExtractOneLast(query, choices) == ExtractLastFrom(query, choices, 1, << >>)

ExtractOne(query, choices) == ExtractFrom(query, choices, 1, << >>)

-----------------------------------------------------------------------------
(* The input files *)

\* a club table of uefa_rankings.json: the clubs in the order of the file,
\* as the dict built by json.load iterates them
Table(names) ==
    [i \in 1..Len(names) |->
        [name |-> names[i],
         coeff |-> CASE names[i] = "realmadrid" -> 381
                     [] names[i] = "realmadrix" -> 350
                     [] OTHER -> 120]]

\* the ranking sources of the model: a season may be absent, present with an
\* empty table, or present with clubs
RankingSources ==
    { [s \in {"24/25"} |-> Table(<<"rayo", "realmadrid", "realmadrix">>)],
      [s \in Seasons |-> IF s = "24/25"
                         THEN Table(<<"realmadrix", "realmadrid">>)
                         ELSE Table(<< >>)] }

\* the columns of fuzzy_corrections.csv
Columns == {"season", "club_query", "matched_name", "is_actually_correct"}

\* rows of fuzzy_corrections.csv; the marker is the text of the cell
CorrectionRows ==
    { [season |-> "24/25", club_query |-> "realmadrid",
       matched_name |-> "rayo", is_actually_correct |-> "1"],
      [season |-> "24/25", club_query |-> "realmadric",
       matched_name |-> "rayo", is_actually_correct |-> "1"],
      [season |-> "23/24", club_query |-> "rayo",
       matched_name |-> "realmadrid", is_actually_correct |-> "1"],
      [season |-> "24/25", club_query |-> "rayo",
       matched_name |-> "realmadrid", is_actually_correct |-> "0"],
      [season |-> "23/24", club_query |-> "realmadric",
       matched_name |-> "realmadrid", is_actually_correct |-> "2"],
      [season |-> "24/25", club_query |-> "realmadric",
       matched_name |-> "realmadrix", is_actually_correct |-> ""] }

\* sequences over S of length at most n
SeqsUpTo(S, n) == UNION {[1..k -> S] : k \in 0..n}

\* fuzzy_corrections.csv: absent, or a header (possibly lacking one column)
\* and rows
NoFile == [exists |-> FALSE, columns |-> {}, rows |-> << >>]

CorrectionFiles ==
    {NoFile} \cup
    { [exists |-> TRUE, columns |-> cols, rows |-> rows] :
        cols \in {Columns} \cup {Columns \ {c} : c \in Columns \ {"club_query"}},
        rows \in SeqsUpTo(CorrectionRows, MaxCorrRows) }

-----------------------------------------------------------------------------
(* State *)

VARIABLES
    pc,              \* position of the script: load, apply, done, or
                     \* load_failed / write_failed after an uncaught exception
    uefa_rankings,   \* season -> club table (line 19)
    corrections_df,  \* the corrections file as read (line 28)
    MANUAL_MAP,      \* (season, club_query) -> matched_name (line 25)
    MATCH_CACHE,     \* _MATCH_CACHE: (season, club) -> coefficient or Unresolved
    LOG_RECORDS,     \* the audit records, in the order appended (line 52)
    applied,         \* number of calls of _get_uefa_coeff made so far
    last,            \* the last call: its arguments, result and return point
    firstRet,        \* (season, club) -> the value its first call returned
    log_file,        \* fuzzy_match_failures.csv as written by this run
    new_file         \* fuzzy_match_new_failures.csv as written by this run

vars == <<pc, uefa_rankings, corrections_df, MANUAL_MAP, MATCH_CACHE,
          LOG_RECORDS, applied, last, firstRet, log_file, new_file>>

\* the empty dict
EmptyMap == [k \in {} |-> None]

\* d[k] = v on a dict
Put(d, k, v) == [x \in DOMAIN d \cup {k} |-> IF x = k THEN v ELSE d[x]]

\* a file this run has not written
NotWritten == [written |-> FALSE, rows |-> << >>]

Written(rows) == [written |-> TRUE, rows |-> rows]

\* no call made yet
NoCall == [season |-> None, club |-> None, threshold |-> 0,
           ret |-> Unresolved, path |-> "none", nlog |-> 0]

-----------------------------------------------------------------------------
(* Loading the corrections (lines 25-43) *)

\* int(cell): the cell's integer, or a ValueError for an empty cell (NaN)
IntRaises(cell) == cell \notin {"0", "1", "2"}

IntOf(cell) == CASE cell = "0" -> 0 [] cell = "1" -> 1 [] OTHER -> 2

\* row.get("is_actually_correct", 0)
MarkerOf(file, row) ==
    IF "is_actually_correct" \in file.columns THEN row.is_actually_correct
    ELSE "0"

\* the loop of lines 31-40 from row i on, with the mapping built so far:
\* [crashed, map].  An approved row whose season, club_query or matched_name
\* column is missing raises KeyError and is skipped; an unusable marker raises
\* ValueError, which nothing catches.
RECURSIVE LoadFrom(_, _, _)
LoadFrom(file, i, map) ==
    IF i > Len(file.rows) THEN [crashed |-> FALSE, map |-> map]
    ELSE LET row == file.rows[i]
             cell == MarkerOf(file, row)
         IN  IF IntRaises(cell) THEN [crashed |-> TRUE, map |-> map]
             ELSE IF IntOf(cell) = 1
                     /\ {"season", "club_query", "matched_name"} \subseteq file.columns
                  THEN LoadFrom(file, i + 1,
                                Put(map, <<row.season, row.club_query>>,
                                    row.matched_name))
                  ELSE LoadFrom(file, i + 1, map)

LoadManualMap(file) ==
    IF file.exists THEN LoadFrom(file, 1, EmptyMap)
    ELSE [crashed |-> FALSE, map |-> EmptyMap]

-----------------------------------------------------------------------------
(* _get_uefa_coeff (lines 59-162) *)

\* uefa_rankings.get(season) is not None
HasSeason(rank, season) == season \in DOMAIN rank

\* uefa_rankings.get(season), for a season that is present
SeasonTable(rank, season) == rank[season]

\* season_table.keys()
Keys(table) == [i \in 1..Len(table) |-> table[i].name]

\* name in season_table
InTable(table, name) == \E i \in 1..Len(table) : table[i].name = name

\* season_table[name]
Coeff(table, name) ==
    table[CHOOSE i \in 1..Len(table) : table[i].name = name].coeff

\* MANUAL_MAP.get(key)
ManualTarget(manual, key) == IF key \in DOMAIN manual THEN manual[key] ELSE None

\* line 84: season_table and manual_target in season_table
ManualUsable(rank, season, target) ==
    /\ HasSeason(rank, season)
    /\ Len(SeasonTable(rank, season)) > 0
    /\ InTable(SeasonTable(rank, season), target)

\* an exclusive boundary
AcceptsAbove(score, threshold) == RatGT(score, OfInt(threshold))

\* a boundary that is one point too low
AcceptsOneBelow(score, threshold) == RatGE(score, OfInt(threshold - 1))

\* line 145: score >= threshold
Accepts(score, threshold) == RatGE(score, OfInt(threshold))

\* a cache that remembers coefficients only, not the misses
CachePutHitsOnly(cache, key, value) ==
    IF value = Unresolved THEN cache ELSE Put(cache, key, value)

\* _MATCH_CACHE[key] = value (lines 86, 113, 119, 140, 147, 161)
CachePut(cache, key, value) == Put(cache, key, value)

\* a record that drops the matched name
LogRecordNameless(season, club, reason, matched, score, threshold) ==
    [season |-> season, club_query |-> club, reason |-> reason,
     matched_name |-> None, score |-> score, threshold |-> threshold]

\* a dict appended to LOG_RECORDS
LogRecord(season, club, reason, matched, score, threshold) ==
    [season |-> season, club_query |-> club, reason |-> reason,
     matched_name |-> matched, score |-> score, threshold |-> threshold]

\* the outcome of a call: the value returned, the cache and the log after it,
\* and the return statement reached
Outcome(ret, cache, log, path) ==
    [ret |-> ret, cache |-> cache, log |-> log, path |-> path]

\* an empty table that is cached as unresolved without a record
FuzzySearchSilentEmpty(table, cache, log, season, club, threshold) ==
    LET key == <<season, club>>
        best_match == ExtractOne(club, Keys(table))
    IN  IF best_match = << >>
        THEN Outcome(Unresolved, CachePut(cache, key, Unresolved), log,
                     "no_candidate")
        ELSE LET matched_name == best_match[1]
                 score == best_match[2]
             IN  IF Accepts(score, threshold)
                 THEN Outcome(Coeff(table, matched_name),
                              CachePut(cache, key, Coeff(table, matched_name)),
                              log, "fuzzy")
                 ELSE Outcome(Unresolved, CachePut(cache, key, Unresolved),
                              Append(log, LogRecord(season, club,
                                                    "below_threshold",
                                                    matched_name, score,
                                                    threshold)),
                              "below_threshold")

\* a weak match that is logged and returned all the same
FuzzySearchReturnsWeak(table, cache, log, season, club, threshold) ==
    LET key == <<season, club>>
        best_match == ExtractOne(club, Keys(table))
    IN  IF best_match = << >>
        THEN Outcome(Unresolved, CachePut(cache, key, Unresolved),
                     Append(log, LogRecord(season, club, "no_candidate", None,
                                           NoScore, threshold)),
                     "no_candidate")
        ELSE LET matched_name == best_match[1]
                 score == best_match[2]
                 coeff == Coeff(table, matched_name)
             IN  Outcome(coeff, CachePut(cache, key, coeff),
                         IF Accepts(score, threshold) THEN log
                         ELSE Append(log, LogRecord(season, club,
                                                    "below_threshold",
                                                    matched_name, score,
                                                    threshold)),
                         IF Accepts(score, threshold) THEN "fuzzy"
                         ELSE "below_threshold")

\* lines 122-162: the fuzzy search among the clubs of the season
FuzzySearch(table, cache, log, season, club, threshold) ==
    LET key == <<season, club>>
        best_match == ExtractOne(club, Keys(table))
    IN  IF best_match = << >>
        THEN Outcome(Unresolved, CachePut(cache, key, Unresolved),
                     Append(log, LogRecord(season, club, "no_candidate", None,
                                           NoScore, threshold)),
                     "no_candidate")
        ELSE LET matched_name == best_match[1]
                 score == best_match[2]
             IN  IF Accepts(score, threshold)
                 THEN Outcome(Coeff(table, matched_name),
                              CachePut(cache, key, Coeff(table, matched_name)),
                              log, "fuzzy")
                 ELSE Outcome(Unresolved, CachePut(cache, key, Unresolved),
                              Append(log, LogRecord(season, club,
                                                    "below_threshold",
                                                    matched_name, score,
                                                    threshold)),
                              "below_threshold")

\* a direct hit that is returned but not written to the cache
LookupDirectUncached(rank, cache, log, season, club, threshold) ==
    LET key == <<season, club>>
    IN  IF ~HasSeason(rank, season)
        THEN Outcome(Unresolved, CachePut(cache, key, Unresolved),
                     Append(log, LogRecord(season, club, "season_missing", None,
                                           NoScore, threshold)),
                     "season_missing")
        ELSE LET season_table == SeasonTable(rank, season)
             IN  IF InTable(season_table, club)
                 THEN Outcome(Coeff(season_table, club), cache, log, "direct")
                 ELSE FuzzySearch(season_table, cache, log, season, club,
                                  threshold)

\* a season whose table is empty taken for a missing season ("not table")
LookupFalsyTable(rank, cache, log, season, club, threshold) ==
    LET key == <<season, club>>
    IN  IF ~HasSeason(rank, season) \/ Len(SeasonTable(rank, season)) = 0
        THEN Outcome(Unresolved, CachePut(cache, key, Unresolved),
                     Append(log, LogRecord(season, club, "season_missing", None,
                                           NoScore, threshold)),
                     "season_missing")
        ELSE LET season_table == SeasonTable(rank, season)
             IN  IF InTable(season_table, club)
                 THEN Outcome(Coeff(season_table, club),
                              CachePut(cache, key, Coeff(season_table, club)),
                              log, "direct")
                 ELSE FuzzySearch(season_table, cache, log, season, club,
                                  threshold)

\* a missing season that starts the log afresh instead of appending to it
LookupResetsLog(rank, cache, log, season, club, threshold) ==
    LET key == <<season, club>>
    IN  IF ~HasSeason(rank, season)
        THEN Outcome(Unresolved, CachePut(cache, key, Unresolved),
                     <<LogRecord(season, club, "season_missing", None,
                                 NoScore, threshold)>>,
                     "season_missing")
        ELSE LET season_table == SeasonTable(rank, season)
             IN  IF InTable(season_table, club)
                 THEN Outcome(Coeff(season_table, club),
                              CachePut(cache, key, Coeff(season_table, club)),
                              log, "direct")
                 ELSE FuzzySearch(season_table, cache, log, season, club,
                                  threshold)

\* lines 100-162: season check, direct hit, fuzzy search
Lookup(rank, cache, log, season, club, threshold) ==
    LET key == <<season, club>>
    IN  IF ~HasSeason(rank, season)
        THEN Outcome(Unresolved, CachePut(cache, key, Unresolved),
                     Append(log, LogRecord(season, club, "season_missing", None,
                                           NoScore, threshold)),
                     "season_missing")
        ELSE LET season_table == SeasonTable(rank, season)
             IN  IF InTable(season_table, club)
                 THEN Outcome(Coeff(season_table, club),
                              CachePut(cache, key, Coeff(season_table, club)),
                              log, "direct")
                 ELSE FuzzySearch(season_table, cache, log, season, club,
                                  threshold)

\* the override consulted only after the direct hit has failed
OverrideAfterDirect(rank, manual, cache, log, season, club, threshold) ==
    LET key == <<season, club>>
        manual_target == ManualTarget(manual, key)
    IN  IF HasSeason(rank, season) /\ InTable(SeasonTable(rank, season), club)
        THEN Lookup(rank, cache, log, season, club, threshold)
        ELSE IF manual_target # None /\ ManualUsable(rank, season, manual_target)
        THEN LET coeff == Coeff(SeasonTable(rank, season), manual_target)
             IN  Outcome(coeff, CachePut(cache, key, coeff), log, "manual")
        ELSE Lookup(rank, cache,
                    IF manual_target # None
                    THEN Append(log, LogRecord(season, club,
                                               "manual_target_missing",
                                               manual_target, NoScore,
                                               threshold))
                    ELSE log,
                    season, club, threshold)

\* an override with a missing target ends the call as unresolved
OverrideStopsAtMissing(rank, manual, cache, log, season, club, threshold) ==
    LET key == <<season, club>>
        manual_target == ManualTarget(manual, key)
    IN  IF manual_target # None
        THEN IF ManualUsable(rank, season, manual_target)
             THEN LET coeff == Coeff(SeasonTable(rank, season), manual_target)
                  IN  Outcome(coeff, CachePut(cache, key, coeff), log, "manual")
             ELSE Outcome(Unresolved, CachePut(cache, key, Unresolved),
                          Append(log, LogRecord(season, club,
                                                "manual_target_missing",
                                                manual_target, NoScore,
                                                threshold)),
                          "manual_target_missing")
        ELSE Lookup(rank, cache, log, season, club, threshold)

\* lines 80-98: the manual override, which returns the target's coefficient
\* or logs manual_target_missing and goes on with the lookup
Override(rank, manual, cache, log, season, club, threshold) ==
    LET key == <<season, club>>
        manual_target == ManualTarget(manual, key)
    IN  IF manual_target # None
        THEN IF ManualUsable(rank, season, manual_target)
             THEN LET coeff == Coeff(SeasonTable(rank, season), manual_target)
                  IN  Outcome(coeff, CachePut(cache, key, coeff), log, "manual")
             ELSE Lookup(rank, cache,
                         Append(log, LogRecord(season, club,
                                               "manual_target_missing",
                                               manual_target, NoScore,
                                               threshold)),
                         season, club, threshold)
        ELSE Lookup(rank, cache, log, season, club, threshold)

\* a cache that is trusted for coefficients only: a cached miss is resolved
\* again
GetUefaCoeffRetriesMisses(rank, manual, cache, log, season, club, threshold) ==
    IF <<season, club>> \in DOMAIN cache /\ cache[<<season, club>>] # Unresolved
    THEN Outcome(cache[<<season, club>>], cache, log, "cached")
    ELSE Override(rank, manual, cache, log, season, club, threshold)

\* a cache that is looked up by the club name alone
GetUefaCoeffClubKeyed(rank, manual, cache, log, season, club, threshold) ==
    IF \E k \in DOMAIN cache : k[2] = club
    THEN Outcome(cache[CHOOSE k \in DOMAIN cache : k[2] = club], cache, log,
                 "cached")
    ELSE Override(rank, manual, cache, log, season, club, threshold)

\* lines 76-78: the cache check in front of everything else
GetUefaCoeff(rank, manual, cache, log, season, club, threshold) ==
    IF <<season, club>> \in DOMAIN cache
    THEN Outcome(cache[<<season, club>>], cache, log, "cached")
    ELSE Override(rank, manual, cache, log, season, club, threshold)

-----------------------------------------------------------------------------
(* The end of the run (lines 185-219) *)

\* (str(row["season"]), str(row["club_query"])) of a row
KeyOf(row) == <<row.season, row.club_query>>

\* line 200 raises KeyError on the first row when a key column is missing
ReviewedKeysRaises(file) ==
    /\ file.exists
    /\ Len(file.rows) > 0
    /\ ~({"season", "club_query"} \subseteq file.columns)

\* lines 197-201
ReviewedKeys(file) ==
    IF file.exists THEN {KeyOf(file.rows[i]) : i \in 1..Len(file.rows)}
    ELSE {}

\* line 203-205
LogKeys(log) == {KeyOf(log[i]) : i \in 1..Len(log)}

\* the filter turned round: the rows whose key is not in keys
RECURSIVE SelectOtherRows(_, _)
SelectOtherRows(log, keys) ==
    IF log = << >> THEN << >>
    ELSE IF KeyOf(Head(log)) \notin keys
         THEN <<Head(log)>> \o SelectOtherRows(Tail(log), keys)
         ELSE SelectOtherRows(Tail(log), keys)

\* lines 210-212: the rows of the log whose key is in keys, in order
RECURSIVE SelectRows(_, _)
SelectRows(log, keys) ==
    IF log = << >> THEN << >>
    ELSE IF KeyOf(Head(log)) \in keys
         THEN <<Head(log)>> \o SelectRows(Tail(log), keys)
         ELSE SelectRows(Tail(log), keys)

-----------------------------------------------------------------------------
(* Actions *)

Init ==
    /\ pc = "load"
    /\ uefa_rankings \in RankingSources
    /\ corrections_df \in CorrectionFiles
    /\ MANUAL_MAP = EmptyMap
    /\ MATCH_CACHE = EmptyMap
    /\ LOG_RECORDS = << >>
    /\ applied = 0
    /\ last = NoCall
    /\ firstRet = EmptyMap
    /\ log_file = NotWritten
    /\ new_file = NotWritten

\* lines 25-43
LoadCorrections ==
    /\ pc = "load"
    /\ LET r == LoadManualMap(corrections_df)
       IN  /\ pc' = IF r.crashed THEN "load_failed" ELSE "apply"
           /\ MANUAL_MAP' = IF r.crashed THEN MANUAL_MAP ELSE r.map
    /\ UNCHANGED <<uefa_rankings, corrections_df, MATCH_CACHE, LOG_RECORDS,
                   applied, last, firstRet, log_file, new_file>>

\* one call of _get_uefa_coeff; the rows of the batch (lines 169-171) pass
\* the default threshold
Resolve(season, club, threshold) ==
    /\ pc = "apply"
    /\ applied < MaxRows
    /\ LET r == GetUefaCoeff(uefa_rankings, MANUAL_MAP, MATCH_CACHE,
                             LOG_RECORDS, season, club, threshold)
       IN  /\ MATCH_CACHE' = r.cache
           /\ LOG_RECORDS' = r.log
           /\ last' = [season |-> season, club |-> club,
                       threshold |-> threshold, ret |-> r.ret,
                       path |-> r.path,
                       nlog |-> Len(r.log) - Len(LOG_RECORDS)]
           /\ firstRet' = IF <<season, club>> \in DOMAIN firstRet THEN firstRet
                          ELSE Put(firstRet, <<season, club>>, r.ret)
    /\ applied' = applied + 1
    /\ UNCHANGED <<pc, uefa_rankings, corrections_df, MANUAL_MAP, log_file,
                   new_file>>

\* lines 185-219, after the last row of the batch
WriteLogs ==
    /\ pc = "apply"
    /\ IF LOG_RECORDS = << >>
       THEN /\ pc' = "done"
            /\ UNCHANGED <<log_file, new_file>>
       ELSE /\ log_file' = Written(LOG_RECORDS)
            /\ IF ReviewedKeysRaises(corrections_df)
               THEN /\ pc' = "write_failed"
                    /\ UNCHANGED new_file
               ELSE LET new_keys == LogKeys(LOG_RECORDS)
                                        \ ReviewedKeys(corrections_df)
                    IN  /\ pc' = "done"
                        /\ new_file' = IF new_keys # {}
                                       THEN Written(SelectRows(LOG_RECORDS,
                                                               new_keys))
                                       ELSE NotWritten
    /\ UNCHANGED <<uefa_rankings, corrections_df, MANUAL_MAP, MATCH_CACHE,
                   LOG_RECORDS, applied, last, firstRet>>

Next ==
    \/ LoadCorrections
    \/ \E season \in Seasons, club \in Queries, threshold \in Thresholds :
           Resolve(season, club, threshold)
    \/ WriteLogs

Spec == Init /\ [][Next]_vars

\* the script as it runs: every row of the batch passes the default
\* threshold (lines 169-171)
NextDefault ==
    \/ LoadCorrections
    \/ \E season \in Seasons, club \in Queries :
           Resolve(season, club, DefaultThreshold)
    \/ WriteLogs

SpecDefault == Init /\ [][NextDefault]_vars

-----------------------------------------------------------------------------
(* Vocabulary of the properties *)

\* the key of the last call
LastKey == <<last.season, last.club>>

\* some call has been made
Called == applied > 0

\* the last call was not answered from the cache
Uncached == Called /\ last.path # "cached"

\* the records the last call appended
Appended ==
    SubSeq(LOG_RECORDS, Len(LOG_RECORDS) - last.nlog + 1, Len(LOG_RECORDS))

\* the positions of the log that hold a record of key
RecordsOf(key) == {i \in 1..Len(LOG_RECORDS) : KeyOf(LOG_RECORDS[i]) = key}

\* the season is a key of the ranking source
SeasonPresent(season) == season \in DOMAIN uefa_rankings

\* name is a club of the season's table
TableHas(season, name) ==
    /\ SeasonPresent(season)
    /\ \E i \in 1..Len(uefa_rankings[season]) :
           uefa_rankings[season][i].name = name

\* the coefficient the season's table gives name
CoeffOf(season, name) ==
    LET t == uefa_rankings[season]
    IN  t[CHOOSE i \in 1..Len(t) : t[i].name = name].coeff

\* the key has an approved correction
HasEntry(key) == key \in DOMAIN MANUAL_MAP

\* the key has an approved correction whose target is in the season's table
UsableEntry(key) == HasEntry(key) /\ TableHas(key[1], MANUAL_MAP[key])

\* the keys a call can name
AllKeys == Seasons \X Queries

-----------------------------------------------------------------------------
(* Properties *)

\* C1: a call on a key that was resolved before in this run returns the value
\* the first call returned and changes neither the audit log nor the cache.
C1_RepeatedCallFromCache ==
    [][\A key \in AllKeys :
          (/\ key \in DOMAIN firstRet
           /\ applied' = applied + 1
           /\ LastKey' = key)
          => /\ last'.ret = firstRet[key]
             /\ LOG_RECORDS' = LOG_RECORDS
             /\ MATCH_CACHE' = MATCH_CACHE]_vars

\* a second call on the one key resolved so far, which was left unresolved
\* with an audit record
C1_Witness ==
    /\ applied = 2
    /\ DOMAIN firstRet = {LastKey}
    /\ firstRet[LastKey] = Unresolved
    /\ last.ret = Unresolved
    /\ Len(LOG_RECORDS) = 1

\* C2: a key with an approved correction whose target is in the season's
\* table resolves to the target's coefficient through the override (or the
\* cache filled by it) and never gets an audit record, also when the queried
\* name is itself a club of the table.
C2_OverrideFirst ==
    \A key \in DOMAIN firstRet :
        UsableEntry(key)
        => /\ firstRet[key] = CoeffOf(key[1], MANUAL_MAP[key])
           /\ MATCH_CACHE[key] = CoeffOf(key[1], MANUAL_MAP[key])
           /\ RecordsOf(key) = {}
           /\ LastKey = key
              => /\ last.ret = CoeffOf(key[1], MANUAL_MAP[key])
                 /\ last.path \in {"manual", "cached"}
                 /\ last.nlog = 0

\* an override decided a call whose queried name is a club of the table with
\* another coefficient
C2_Witness ==
    /\ Called
    /\ last.path = "manual"
    /\ UsableEntry(LastKey)
    /\ TableHas(last.season, last.club)
    /\ CoeffOf(last.season, last.club) # last.ret

\* C3: a key without a correction whose name is a club of the season's table
\* resolves to that club's coefficient, which is cached, and has no audit
\* record however often it is resolved.
C3_ExactHit ==
    \A key \in DOMAIN firstRet :
        (~HasEntry(key) /\ TableHas(key[1], key[2]))
        => /\ firstRet[key] = CoeffOf(key[1], key[2])
           /\ key \in DOMAIN MATCH_CACHE
           /\ MATCH_CACHE[key] = CoeffOf(key[1], key[2])
           /\ RecordsOf(key) = {}
           /\ LastKey = key => last.ret = CoeffOf(key[1], key[2])

\* an exact hit was resolved twice
C3_Witness ==
    /\ applied = 2
    /\ DOMAIN firstRet = {LastKey}
    /\ ~HasEntry(LastKey)
    /\ TableHas(last.season, last.club)
    /\ last.path = "cached"

\* C4: a key whose season is not in the ranking source resolves to
\* unresolved, is cached as unresolved, and has a season_missing record
\* without matched name and score, with or without a correction.
C4_SeasonMissing ==
    \A key \in DOMAIN firstRet :
        ~SeasonPresent(key[1])
        => /\ firstRet[key] = Unresolved
           /\ key \in DOMAIN MATCH_CACHE
           /\ MATCH_CACHE[key] = Unresolved
           /\ \E i \in RecordsOf(key) :
                  /\ LOG_RECORDS[i].reason = "season_missing"
                  /\ LOG_RECORDS[i].matched_name = None
                  /\ LOG_RECORDS[i].score = NoScore
           /\ LastKey = key => last.ret = Unresolved

\* a key with a correction was resolved in a season the source lacks
C4_Witness ==
    /\ Uncached
    /\ ~SeasonPresent(last.season)
    /\ HasEntry(LastKey)
    /\ last.path = "season_missing"

\* the season's table has clubs, the name is none of them and no correction
\* of the key can be used: the key is left to the fuzzy search
FuzzyCase(key) ==
    /\ SeasonPresent(key[1])
    /\ Len(uefa_rankings[key[1]]) > 0
    /\ ~TableHas(key[1], key[2])
    /\ ~UsableEntry(key)

\* the position in the season's table of the best candidate for the name:
\* the first club, in the table's order, that no club outscores
BestIndex(key) ==
    LET t == uefa_rankings[key[1]]
        sc(i) == Score(key[2], t[i].name)
    IN  CHOOSE i \in 1..Len(t) :
            /\ \A j \in 1..Len(t) : RatGE(sc(i), sc(j))
            /\ \A j \in 1..(i - 1) : ~RatGE(sc(j), sc(i))

BestName(key) == uefa_rankings[key[1]][BestIndex(key)].name

BestScore(key) == Score(key[2], BestName(key))

\* the last call ran the fuzzy search
OnFuzzyPath == Uncached /\ FuzzyCase(LastKey)

\* the reasons of the records the last call appended, in order
AppendedReasons == [i \in 1..Len(Appended) |-> Appended[i].reason]

\* C5 as stated: on the fuzzy path a best score equal to the threshold is
\* accepted, the candidate's coefficient is cached and returned, and the call
\* appends no audit record.
C5_AsStated ==
    (OnFuzzyPath /\ BestScore(LastKey) = OfInt(last.threshold))
    => /\ last.ret = CoeffOf(last.season, BestName(LastKey))
       /\ MATCH_CACHE[LastKey] = last.ret
       /\ last.nlog = 0

\* C5, amended: on the fuzzy path a best score equal to the threshold is
\* accepted, the candidate's coefficient is cached and returned, and the call
\* appends no record for the fuzzy decision: nothing when the key has no
\* correction, and only the manual_target_missing record of its unusable
\* correction otherwise.
C5_InclusiveBoundary ==
    (OnFuzzyPath /\ BestScore(LastKey) = OfInt(last.threshold))
    => /\ last.ret = CoeffOf(last.season, BestName(LastKey))
       /\ LastKey \in DOMAIN MATCH_CACHE
       /\ MATCH_CACHE[LastKey] = last.ret
       /\ AppendedReasons = IF HasEntry(LastKey)
                            THEN <<"manual_target_missing">> ELSE << >>

\* a match at exactly the default threshold was accepted without a record
C5_Witness ==
    /\ OnFuzzyPath
    /\ last.threshold = DefaultThreshold
    /\ BestScore(LastKey) = OfInt(DefaultThreshold)
    /\ last.ret = CoeffOf(last.season, BestName(LastKey))
    /\ last.nlog = 0

\* C6: on the fuzzy path a best score below the threshold leaves the key
\* unresolved, in the result and in the cache, and the call appends exactly
\* one below_threshold record, which names the best candidate, its score and
\* the threshold of the call.
C6_BelowThreshold ==
    (OnFuzzyPath /\ ~RatGE(BestScore(LastKey), OfInt(last.threshold)))
    => /\ last.ret = Unresolved
       /\ LastKey \in DOMAIN MATCH_CACHE
       /\ MATCH_CACHE[LastKey] = Unresolved
       /\ Cardinality({i \in 1..Len(Appended) :
                          Appended[i].reason = "below_threshold"}) = 1
       /\ Appended[Len(Appended)] =
              [season |-> last.season, club_query |-> last.club,
               reason |-> "below_threshold",
               matched_name |-> BestName(LastKey),
               score |-> BestScore(LastKey),
               threshold |-> last.threshold]

\* a best score one below the threshold was rejected, with two candidates
\* tied for the best
C6_Witness ==
    /\ OnFuzzyPath
    /\ BestScore(LastKey) = OfInt(last.threshold - 1)
    /\ last.ret = Unresolved
    /\ \E i \in 1..Len(uefa_rankings[last.season]) :
           /\ i # BestIndex(LastKey)
           /\ Score(last.club, uefa_rankings[last.season][i].name)
                  = BestScore(LastKey)

\* the key has a correction whose target cannot be used
UnusableEntry(key) == HasEntry(key) /\ ~UsableEntry(key)

\* the last call ended as a direct or corrected hit with nothing to report
CleanHit == last.path \in {"direct", "manual"} /\ ~UnusableEntry(LastKey)

\* C7 as stated: an uncached call appends exactly one record unless it ends
\* as a clean direct or corrected hit, and none when it does.
C7_AsStated ==
    Uncached => last.nlog = IF CleanHit THEN 0 ELSE 1

\* how many of a and b hold
CountTrue(a, b) == (IF a THEN 1 ELSE 0) + (IF b THEN 1 ELSE 0)

\* C7, amended: an uncached call appends one manual_target_missing record
\* when the key's correction cannot be used, and one season_missing,
\* no_candidate or below_threshold record when it returns unresolved; so it
\* appends none exactly when it returns a coefficient (corrected hit, direct
\* hit or accepted fuzzy match) with no unusable correction, and two when
\* both happen.  A call answered from the cache appends none.
C7_RecordsPerCall ==
    Called =>
        IF Uncached
        THEN /\ last.nlog = CountTrue(UnusableEntry(LastKey),
                                      last.ret = Unresolved)
             /\ UnusableEntry(LastKey)
                    => Appended[1].reason = "manual_target_missing"
             /\ last.ret = Unresolved
                    => Appended[Len(Appended)].reason \in
                           {"season_missing", "no_candidate", "below_threshold"}
        ELSE last.nlog = 0

\* a call appended two records: the override's target and the season were
\* both missing
C7_Witness ==
    /\ Uncached
    /\ last.nlog = 2
    /\ AppendedReasons = <<"manual_target_missing", "season_missing">>

\* C7's other case: an accepted fuzzy match is neither a direct nor a
\* corrected hit and appends nothing
C7_FuzzyAccepted ==
    /\ Uncached
    /\ last.path = "fuzzy"
    /\ ~HasEntry(LastKey)
    /\ last.nlog = 0

\* C8 as stated: a call that records any of the four reasons returns
\* unresolved.
C8_AsStated ==
    (Called /\ last.nlog > 0) => last.ret = Unresolved

\* C8, amended: a call that records season_missing, no_candidate or
\* below_threshold returns unresolved and caches it; a call that records
\* manual_target_missing alone has gone on with the lookup and returns what
\* that yields.  Every call ends with a return statement.
C8_MissIsUnresolved ==
    Called =>
        /\ (\E i \in 1..Len(Appended) :
               Appended[i].reason \in
                   {"season_missing", "no_candidate", "below_threshold"})
           => /\ last.ret = Unresolved
              /\ LastKey \in DOMAIN MATCH_CACHE
              /\ MATCH_CACHE[LastKey] = Unresolved
        /\ last.path \in {"cached", "manual", "season_missing", "direct",
                          "no_candidate", "fuzzy", "below_threshold"}

\* a below_threshold record was written by a call that returned unresolved
C8_Witness ==
    /\ Uncached
    /\ last.ret = Unresolved
    /\ AppendedReasons = <<"below_threshold">>

\* C8's other case: a call recorded manual_target_missing and returned a
\* coefficient
C8_MissingTargetResolved ==
    /\ Uncached
    /\ AppendedReasons = <<"manual_target_missing">>
    /\ last.ret # Unresolved

\* the keys that occur in a row of the corrections source; a source without
\* a season or club_query column gives its rows no key
SourceKeys ==
    IF corrections_df.exists
        /\ {"season", "club_query"} \subseteq corrections_df.columns
    THEN {KeyOf(corrections_df.rows[i]) : i \in 1..Len(corrections_df.rows)}
    ELSE {}

\* the audit records whose key occurs in no row of the corrections source
Unreviewed == SelectRows(LOG_RECORDS, LogKeys(LOG_RECORDS) \ SourceKeys)

\* the run is over, normally or by an exception after the batch
AfterBatch == pc \in {"done", "write_failed"}

\* C9: after the batch the subset for review holds exactly the audit records
\* whose key occurs in no row of the corrections source, whatever the rows'
\* markers; the full trail holds all records; neither is written when there
\* is no record.
C9_NewSubset ==
    AfterBatch =>
        IF LOG_RECORDS = << >>
        THEN ~log_file.written /\ ~new_file.written
        ELSE /\ log_file = Written(LOG_RECORDS)
             /\ new_file.rows = Unreviewed
             /\ new_file.written = (Unreviewed # << >>)

\* the reasons of the audit records
Reasons ==
    {"manual_target_missing", "season_missing", "no_candidate",
     "below_threshold"}

\* C10: the reason of an audit record determines its fields: season_missing
\* and no_candidate have neither matched name nor score;
\* manual_target_missing has the correction's target and no score;
\* below_threshold has a matched name and a score; all have season, queried
\* name and threshold.
C10_ReasonDeterminesFields ==
    \A i \in 1..Len(LOG_RECORDS) :
        LET r == LOG_RECORDS[i]
        IN  /\ r.reason \in Reasons
            /\ r.season \in Seasons
            /\ r.club_query \in Queries
            /\ r.threshold \in Thresholds
            /\ r.reason \in {"season_missing", "no_candidate"}
                   => r.matched_name = None /\ r.score = NoScore
            /\ r.reason = "manual_target_missing"
                   => /\ HasEntry(KeyOf(r))
                      /\ r.matched_name = MANUAL_MAP[KeyOf(r)]
                      /\ r.matched_name # None
                      /\ r.score = NoScore
            /\ r.reason = "below_threshold"
                   => /\ TableHas(r.season, r.matched_name)
                      /\ r.score # NoScore
                      /\ r.score = Score(r.club_query, r.matched_name)

\* the log holds a manual_target_missing and a below_threshold record
C10_Witness ==
    /\ \E i \in 1..Len(LOG_RECORDS) :
           LOG_RECORDS[i].reason = "manual_target_missing"
    /\ \E i \in 1..Len(LOG_RECORDS) :
           LOG_RECORDS[i].reason = "below_threshold"

\* C11: a cache entry, once written, is never changed or removed, and a later
\* call on its key, with any threshold, returns the stored value from the
\* cache check alone, without a new record.
C11_CacheAuthoritative ==
    [][\A key \in DOMAIN MATCH_CACHE :
          /\ key \in DOMAIN MATCH_CACHE'
          /\ MATCH_CACHE'[key] = MATCH_CACHE[key]
          /\ (applied' = applied + 1 /\ LastKey' = key)
             => /\ last'.ret = MATCH_CACHE[key]
                /\ last'.path = "cached"
                /\ last'.nlog = 0]_vars

\* a key rejected under the stricter threshold was asked again with the
\* default threshold, which its best candidate meets, and stayed unresolved
C11_Witness ==
    /\ applied = 2
    /\ last.path = "cached"
    /\ last.threshold = DefaultThreshold
    /\ last.ret = Unresolved
    /\ FuzzyCase(LastKey)
    /\ RatGE(BestScore(LastKey), OfInt(DefaultThreshold))
    /\ \E i \in RecordsOf(LastKey) :
           /\ LOG_RECORDS[i].reason = "below_threshold"
           /\ LOG_RECORDS[i].threshold = DefaultThreshold + 1

\* the rows of the corrections source that carry the approved marker and all
\* three fields of an entry
ApprovedRows ==
    IF corrections_df.exists
        /\ {"season", "club_query", "matched_name", "is_actually_correct"}
               \subseteq corrections_df.columns
    THEN {i \in 1..Len(corrections_df.rows) :
              corrections_df.rows[i].is_actually_correct = "1"}
    ELSE {}

\* C12: the load never aborts because of a row: after it, the table holds
\* exactly the keys of the approved rows that have all fields, each with the
\* matched name of the last such row, whatever the other rows lack.
C12_LoadSkipsBadRows ==
    pc # "load" =>
        /\ pc # "load_failed"
        /\ DOMAIN MANUAL_MAP =
               {KeyOf(corrections_df.rows[i]) : i \in ApprovedRows}
        /\ \A i \in ApprovedRows :
               (\A j \in ApprovedRows :
                    KeyOf(corrections_df.rows[j]) = KeyOf(corrections_df.rows[i])
                    => j <= i)
               => MANUAL_MAP[KeyOf(corrections_df.rows[i])]
                      = corrections_df.rows[i].matched_name

\* what a call on the key yields when nothing is cached, nothing is logged
\* and the corrections are the given ones
Alone(manual, key, threshold) ==
    GetUefaCoeff(uefa_rankings, manual, EmptyMap, << >>, key[1], key[2],
                 threshold)

\* C13: an uncached call on a key whose correction cannot be used appends
\* the manual_target_missing record (target, no score) first and then
\* returns the value, and appends the records, of the same call with an
\* empty correction table.
C13_FallThrough ==
    (Uncached /\ UnusableEntry(LastKey))
    => LET plain == Alone(EmptyMap, LastKey, last.threshold)
       IN  /\ last.ret = plain.ret
           /\ LastKey \in DOMAIN MATCH_CACHE
           /\ MATCH_CACHE[LastKey] = plain.ret
           /\ Appended =
                  <<[season |-> last.season, club_query |-> last.club,
                     reason |-> "manual_target_missing",
                     matched_name |-> MANUAL_MAP[LastKey],
                     score |-> NoScore,
                     threshold |-> last.threshold]>> \o plain.log

\* a missing target was followed by a direct hit of the queried name
C13_Witness ==
    /\ Uncached
    /\ UnusableEntry(LastKey)
    /\ TableHas(last.season, last.club)
    /\ last.ret = CoeffOf(last.season, last.club)
    /\ AppendedReasons = <<"manual_target_missing">>

\* the reasons of the records of key, in the order of the log
RECURSIVE ReasonsIn(_, _)
ReasonsIn(log, key) ==
    IF log = << >> THEN << >>
    ELSE IF KeyOf(Head(log)) = key
         THEN <<Head(log).reason>> \o ReasonsIn(Tail(log), key)
         ELSE ReasonsIn(Tail(log), key)

\* C14: a season that is present with an empty table is reported as
\* no_candidate, never as season_missing: its keys are unresolved with one
\* no_candidate record, after a manual_target_missing record when the key
\* has a correction; and a key has a season_missing record exactly when its
\* season is absent from the ranking source.
C14_EmptyTableIsNoCandidate ==
    \A key \in DOMAIN firstRet :
        /\ ("season_missing" \in
                {LOG_RECORDS[i].reason : i \in RecordsOf(key)})
           <=> ~SeasonPresent(key[1])
        /\ (SeasonPresent(key[1]) /\ Len(uefa_rankings[key[1]]) = 0)
           => /\ firstRet[key] = Unresolved
              /\ key \in DOMAIN MATCH_CACHE
              /\ MATCH_CACHE[key] = Unresolved
              /\ ReasonsIn(LOG_RECORDS, key) =
                     IF HasEntry(key)
                     THEN <<"manual_target_missing", "no_candidate">>
                     ELSE <<"no_candidate">>

\* a key with a correction was resolved in a season with an empty table
C14_Witness ==
    /\ Uncached
    /\ SeasonPresent(last.season)
    /\ Len(uefa_rankings[last.season]) = 0
    /\ HasEntry(LastKey)
    /\ AppendedReasons = <<"manual_target_missing", "no_candidate">>

\* C15 as stated: a coefficient returned for a key that is left to the fuzzy
\* search, from the cache or not, is the best candidate's, and the
\* candidate's score is at least the threshold of this call.
C15_AsStated ==
    (Called /\ FuzzyCase(LastKey) /\ last.ret # Unresolved)
    => /\ last.ret = CoeffOf(last.season, BestName(LastKey))
       /\ RatGE(BestScore(LastKey), OfInt(last.threshold))

\* C15, amended: a coefficient returned for a key that is left to the fuzzy
\* search is the best candidate's; the candidate's score is at least the
\* threshold of the call when the call is not answered from the cache, and a
\* call answered from the cache returns the stored value whatever threshold
\* it passes.
C15_ThresholdOfFirstCall ==
    [][(applied' = applied + 1 /\ FuzzyCase(LastKey')
            /\ last'.ret # Unresolved)
       => /\ last'.ret = CoeffOf(last'.season, BestName(LastKey'))
          /\ IF LastKey' \in DOMAIN MATCH_CACHE
             THEN last'.ret = MATCH_CACHE[LastKey']
             ELSE RatGE(BestScore(LastKey'), OfInt(last'.threshold))]_vars

\* a match accepted at the default threshold was returned from the cache to
\* a call with the stricter threshold, which the candidate does not meet
C15_Witness ==
    /\ applied = 2
    /\ last.path = "cached"
    /\ FuzzyCase(LastKey)
    /\ last.ret = CoeffOf(last.season, BestName(LastKey))
    /\ last.threshold = DefaultThreshold + 1
    /\ ~RatGE(BestScore(LastKey), OfInt(last.threshold))

\* the records of key, in the order of the log
RECURSIVE RecordsIn(_, _)
RecordsIn(log, key) ==
    IF log = << >> THEN << >>
    ELSE IF KeyOf(Head(log)) = key
         THEN <<Head(log)>> \o RecordsIn(Tail(log), key)
         ELSE RecordsIn(Tail(log), key)

\* C16: with the threshold fixed, the cache entry of a key and the records
\* of a key are those of resolving the key alone, whatever was resolved
\* before it; the cache holds the keys resolved and the log has records of
\* these keys only.  So the cache and the set of records after a batch
\* depend on the set of its keys, not on their order.
C16_OrderIndependent ==
    /\ DOMAIN MATCH_CACHE = DOMAIN firstRet
    /\ \A i \in 1..Len(LOG_RECORDS) : KeyOf(LOG_RECORDS[i]) \in DOMAIN firstRet
    /\ \A key \in DOMAIN firstRet :
           LET alone == Alone(MANUAL_MAP, key, DefaultThreshold)
           IN  /\ firstRet[key] = alone.ret
               /\ MATCH_CACHE[key] = alone.ret
               /\ RecordsIn(LOG_RECORDS, key) = alone.log
    /\ Called => last.ret = Alone(MANUAL_MAP, LastKey, DefaultThreshold).ret

\* two keys with the same club name in different seasons were resolved, with
\* different results, and each left a record
C16_Witness ==
    /\ applied = 2
    /\ \E k1, k2 \in DOMAIN firstRet :
           /\ k1[1] # k2[1]
           /\ k1[2] = k2[2]
           /\ firstRet[k1] # firstRet[k2]
           /\ RecordsOf(k1) # {}
           /\ RecordsOf(k2) # {}

\* C17: a call of resolve leaves the records logged before it as an
\* unchanged prefix of the log, and no step after the load changes the
\* ranking tables or the correction table.
C17_AppendOnly ==
    [][/\ Len(LOG_RECORDS') >= Len(LOG_RECORDS)
       /\ SubSeq(LOG_RECORDS', 1, Len(LOG_RECORDS)) = LOG_RECORDS
       /\ uefa_rankings' = uefa_rankings
       /\ pc # "load" => /\ MANUAL_MAP' = MANUAL_MAP
                         /\ corrections_df' = corrections_df]_vars

\* a second call appended its record behind the record of the first
C17_Witness ==
    /\ applied = 2
    /\ last.nlog = 1
    /\ Len(LOG_RECORDS) = 2
    /\ KeyOf(LOG_RECORDS[1]) # LastKey
    /\ DOMAIN MANUAL_MAP # {}

\* the reasons that leave a key unresolved
MissReasons == {"season_missing", "no_candidate", "below_threshold"}

\* C18: between calls, a key is cached as unresolved exactly when the log
\* holds one record of it with a reason among season_missing, no_candidate
\* and below_threshold; no key has two records with the same reason, nor
\* more than two records; every key with a record is in the cache.
C18_CacheAgreesWithLog ==
    \A key \in AllKeys :
        LET recs == RecordsOf(key)
            misses == {i \in recs : LOG_RECORDS[i].reason \in MissReasons}
        IN  /\ (key \in DOMAIN MATCH_CACHE /\ MATCH_CACHE[key] = Unresolved)
               <=> Cardinality(misses) = 1
            /\ \A i, j \in recs :
                   LOG_RECORDS[i].reason = LOG_RECORDS[j].reason => i = j
            /\ Cardinality(recs) <= 2
            /\ Cardinality(misses) <= 1
            /\ recs # {} => key \in DOMAIN MATCH_CACHE

\* a key with two records is cached as unresolved and was asked for twice,
\* and another key is cached with a coefficient
C18_Witness ==
    /\ applied = 2
    /\ last.path = "cached"
    /\ Cardinality(RecordsOf(LastKey)) = 2
    /\ MATCH_CACHE[LastKey] = Unresolved

\* C19: a manual_target_missing record belongs to a key with an approved
\* correction, and no record of such a key is in the subset for review.
C19_MissingTargetIsReviewed ==
    \A i \in 1..Len(LOG_RECORDS) :
        LOG_RECORDS[i].reason = "manual_target_missing"
        => /\ HasEntry(KeyOf(LOG_RECORDS[i]))
           /\ \E j \in 1..Len(corrections_df.rows) :
                  /\ KeyOf(corrections_df.rows[j]) = KeyOf(LOG_RECORDS[i])
                  /\ corrections_df.rows[j].is_actually_correct = "1"
           /\ \A j \in 1..Len(new_file.rows) :
                  KeyOf(new_file.rows[j]) # KeyOf(LOG_RECORDS[i])

\* the subset for review was written with the record of another key, while
\* the two records of a key with a missing target were kept out of it
C19_Witness ==
    /\ pc = "done"
    /\ new_file.written
    /\ log_file.written
    /\ \E i \in 1..Len(LOG_RECORDS) :
           /\ LOG_RECORDS[i].reason = "manual_target_missing"
           /\ Cardinality(RecordsOf(KeyOf(LOG_RECORDS[i]))) = 2
    /\ Len(new_file.rows) = 1
    /\ Len(log_file.rows) = 3

====
